---- MODULE Spec2Model ----
(***************************************************************************)
(* Model of django_cloud_deploy:                                           *)
(*   skeleton/requirements_parser.py  (parse_line, parse)                  *)
(*   crash_handling/__init__.py       (handle_crash, _create_issue_body)   *)
(*                                                                         *)
(* A Python str is a sequence of one-character strings.  A file system     *)
(* maps a path to a record [exists, lines]; lines is what                  *)
(* read().splitlines() yields.  Every existing path is a readable regular  *)
(* text file, and paths carry no "." or ".." components.                   *)
(***************************************************************************)
EXTENDS Integers, Sequences, FiniteSets, TLC

VARIABLES
    fs,        \* the file system: path -> [exists, lines]
    top,       \* per caller: the path given to the outermost parse(path)
    pc,        \* per caller: "unused", "call", "loop", "done", "RecursionError"
    arg,       \* per caller: the argument of the parse call being entered
    stack,     \* per caller: the activation records of parse, innermost last
    result,    \* per caller: the value returned by the outermost parse
    cpc,       \* handle_crash: position in the handler
    err,       \* handle_crash: the exception given, [user, cause]
    probe,     \* handle_crash: outcome of each external binary
    version,   \* handle_crash: the version strings computed so far
    logfile,   \* handle_crash: state of the report file
    told,      \* handle_crash: number of console.tell calls
    asked,     \* handle_crash: number of console.ask calls
    ans,       \* handle_crash: the local variable ans
    reply,     \* handle_crash: what the last console.ask returned
    browser,   \* handle_crash: number of webbrowser.open_url calls
    raised     \* handle_crash: the exception that left handle_crash

parseVars == <<fs, top, pc, arg, stack, result>>
crashVars == <<cpc, err, probe, version, logfile, told, asked, ans, reply, browser, raised>>
vars == <<fs, top, pc, arg, stack, result,
          cpc, err, probe, version, logfile, told, asked, ans, reply, browser, raised>>

(***************************************************************************)
(* Bounds                                                                  *)
(***************************************************************************)
MaxLines == 2     \* lines of the generated top-level file
MaxLen == 4       \* characters of a generated line
MaxDepth == 5     \* nesting of parse at which the recursion limit is hit
NumCallers == 2   \* concurrent callers of parse
MaxAsks == 3      \* console.ask calls modelled
MaxAnsLen == 2    \* characters of a console answer

Callers == 1..NumCallers

SeqsUpTo(S, n) == UNION {[1..k -> S] : k \in 0..n}

(***************************************************************************)
(* str methods used by the parser                                          *)
(***************************************************************************)
Whitespace == {" ", "\t"}

RECURSIVE lstrip(_)
lstrip(s) ==
    IF s # <<>> /\ Head(s) \in Whitespace THEN lstrip(Tail(s)) ELSE s

RECURSIVE rstrip(_)
rstrip(s) ==
    IF s # <<>> /\ s[Len(s)] \in Whitespace
    THEN rstrip(SubSeq(s, 1, Len(s) - 1))
    ELSE s

strip(s) == rstrip(lstrip(s))

startswith(s, p) == Len(s) >= Len(p) /\ SubSeq(s, 1, Len(p)) = p

\* s.split(sep) for a one-character sep: the list of pieces, empty ones kept.
RECURSIVE split_on(_, _, _)
split_on(s, seps, cur) ==
    IF s = <<>> THEN <<cur>>
    ELSE IF Head(s) \in seps
         THEN <<cur>> \o split_on(Tail(s), seps, <<>>)
         ELSE split_on(Tail(s), seps, Append(cur, Head(s)))

str_split(s, sep) == split_on(s, {sep}, <<>>)

\* The character class of the regular expression in parse_line.
DelimitersNoTilde == {";", "[", ">", "=", "<"}

Delimiters == {";", "[", "~", ">", "=", "<"}

re_split(line) == split_on(line, Delimiters, <<>>)

parse_line(line) == strip(re_split(line)[1])

(***************************************************************************)
(* os.path (posixpath)                                                     *)
(***************************************************************************)
Slash == "/"

\* 1 + the index of the last "/" in p (0 when there is none): p.rfind('/') + 1
RECURSIVE rfind1(_, _)
rfind1(p, k) ==
    IF k = 0 THEN 0 ELSE IF p[k] = Slash THEN k ELSE rfind1(p, k - 1)

RECURSIVE rstrip_slash(_)
rstrip_slash(s) ==
    IF s # <<>> /\ s[Len(s)] = Slash
    THEN rstrip_slash(SubSeq(s, 1, Len(s) - 1))
    ELSE s

os_path_dirname(p) ==
    LET head == SubSeq(p, 1, rfind1(p, Len(p)))
    IN  IF head # <<>> /\ (\E k \in 1..Len(head) : head[k] # Slash)
        THEN rstrip_slash(head)
        ELSE head

os_path_join(a, b) ==
    IF startswith(b, <<Slash>>) THEN b
    ELSE IF a = <<>> \/ a[Len(a)] = Slash THEN a \o b
    ELSE a \o <<Slash>> \o b

os_path_exists(path) == path \in DOMAIN fs /\ fs[path].exists

(***************************************************************************)
(* The body of parse, piece by piece                                       *)
(***************************************************************************)
\* dir_path = os.path.dirname(path)
dir_path_root(path) == <<Slash>>

dir_path_of(path) == os_path_dirname(path)

\* line 60: the lines that `continue`
is_skipped_no_docstring(line) ==
    line = <<>> \/ startswith(line, <<"#">>)

is_skipped(line) ==
    line = <<>> \/ startswith(line, <<"#">>) \/ startswith(line, <<"\"", "\"", "\"">>)

\* line 62
is_include(line) == startswith(line, <<"-", "r">>)

\* line 63: line.split(' ')[-1]
sub_requirements_path(line) ==
    LET parts == str_split(line, " ") IN parts[Len(parts)]

Frame(path) ==
    [path |-> path, dir_path |-> dir_path_of(path), lines |-> fs[path].lines,
     i |-> 1, results |-> {}]

TopFrame(c) == stack[c][Len(stack[c])]

\* The line the for loop of caller c is at, after line = line.strip()
CurLine(c) == strip(TopFrame(c).lines[TopFrame(c).i])

InLoop(c) ==
    /\ pc[c] = "loop"
    /\ TopFrame(c).i <= Len(TopFrame(c).lines)

SetTop(c, f) == [stack EXCEPT ![c] = [@ EXCEPT ![Len(@)] = f]]

\* parse returns `value` into the activation records `rest` of caller c:
\* the outermost call is finished, or the caller's frame executes
\* results = results.union(value) and moves to its next line.
ReturnValue(c, rest, value) ==
    IF rest = <<>>
    THEN /\ pc' = [pc EXCEPT ![c] = "done"]
         /\ result' = [result EXCEPT ![c] = value]
         /\ stack' = [stack EXCEPT ![c] = <<>>]
    ELSE LET f == rest[Len(rest)] IN
         /\ pc' = [pc EXCEPT ![c] = "loop"]
         /\ stack' = [stack EXCEPT ![c] =
                [rest EXCEPT ![Len(rest)] =
                    [f EXCEPT !.results = f.results \cup value, !.i = f.i + 1]]]
         /\ UNCHANGED result

\* lines 51-53, with a FileNotFoundError in place of the early return
ParseMissingRaises(c) ==
    /\ pc[c] = "call"
    /\ Len(stack[c]) < MaxDepth
    /\ ~os_path_exists(arg[c])
    /\ pc' = [pc EXCEPT ![c] = "FileNotFoundError"]
    /\ stack' = [stack EXCEPT ![c] = <<>>]
    /\ UNCHANGED <<fs, top, arg, result>>
    /\ UNCHANGED crashVars

\* lines 51-53: the path does not exist, parse returns the empty set
ParseMissing(c) ==
    /\ pc[c] = "call"
    /\ Len(stack[c]) < MaxDepth
    /\ ~os_path_exists(arg[c])
    /\ ReturnValue(c, stack[c], {})
    /\ UNCHANGED <<fs, top, arg>>
    /\ UNCHANGED crashVars

\* lines 51-57: the path exists, the file is read and the loop is entered
ParseOpen(c) ==
    /\ pc[c] = "call"
    /\ Len(stack[c]) < MaxDepth
    /\ os_path_exists(arg[c])
    /\ stack' = [stack EXCEPT ![c] = Append(@, Frame(arg[c]))]
    /\ pc' = [pc EXCEPT ![c] = "loop"]
    /\ UNCHANGED <<fs, top, arg, result>>
    /\ UNCHANGED crashVars

\* the interpreter's recursion limit: the call raises RecursionError, which
\* no frame of parse catches
RecursionLimit(c) ==
    /\ pc[c] = "call"
    /\ Len(stack[c]) >= MaxDepth
    /\ pc' = [pc EXCEPT ![c] = "RecursionError"]
    /\ stack' = [stack EXCEPT ![c] = <<>>]
    /\ UNCHANGED <<fs, top, arg, result>>
    /\ UNCHANGED crashVars

\* lines 59-61
SkipLine(c) ==
    /\ InLoop(c)
    /\ is_skipped(CurLine(c))
    /\ stack' = SetTop(c, [TopFrame(c) EXCEPT !.i = @ + 1])
    /\ UNCHANGED <<fs, top, pc, arg, result>>
    /\ UNCHANGED crashVars

\* lines 62-65 with a visited check: a file already being parsed is not entered
IncludeLineVisited(c) ==
    /\ InLoop(c)
    /\ ~is_skipped(CurLine(c))
    /\ is_include(CurLine(c))
    /\ LET p == os_path_join(TopFrame(c).dir_path, sub_requirements_path(CurLine(c)))
       IN  IF \E k \in 1..Len(stack[c]) : stack[c][k].path = p
           THEN /\ stack' = SetTop(c, [TopFrame(c) EXCEPT !.i = @ + 1])
                /\ UNCHANGED <<pc, arg>>
           ELSE /\ arg' = [arg EXCEPT ![c] = p]
                /\ pc' = [pc EXCEPT ![c] = "call"]
                /\ UNCHANGED stack
    /\ UNCHANGED <<fs, top, result>>
    /\ UNCHANGED crashVars

\* lines 62-65: the recursive call parse(os.path.join(dir_path, ...))
IncludeLine(c) ==
    /\ InLoop(c)
    /\ ~is_skipped(CurLine(c))
    /\ is_include(CurLine(c))
    /\ arg' = [arg EXCEPT ![c] =
            os_path_join(TopFrame(c).dir_path, sub_requirements_path(CurLine(c)))]
    /\ pc' = [pc EXCEPT ![c] = "call"]
    /\ UNCHANGED <<fs, top, stack, result>>
    /\ UNCHANGED crashVars

\* lines 66-67 with one results set shared by every call in progress
AddLineShared(c) ==
    /\ InLoop(c)
    /\ ~is_skipped(CurLine(c))
    /\ ~is_include(CurLine(c))
    /\ stack' = [d \in Callers |->
            IF d = c
            THEN [stack[d] EXCEPT ![Len(stack[d])] =
                    [@ EXCEPT !.results = @ \cup {parse_line(CurLine(c))}, !.i = @ + 1]]
            ELSE IF stack[d] # <<>>
            THEN [stack[d] EXCEPT ![Len(stack[d])] =
                    [@ EXCEPT !.results = @ \cup {parse_line(CurLine(c))}]]
            ELSE stack[d]]
    /\ UNCHANGED <<fs, top, pc, arg, result>>
    /\ UNCHANGED crashVars

\* lines 66-67: results.add(parse_line(line))
AddLine(c) ==
    /\ InLoop(c)
    /\ ~is_skipped(CurLine(c))
    /\ ~is_include(CurLine(c))
    /\ stack' = SetTop(c, [TopFrame(c) EXCEPT
            !.results = @ \cup {parse_line(CurLine(c))}, !.i = @ + 1])
    /\ UNCHANGED <<fs, top, pc, arg, result>>
    /\ UNCHANGED crashVars

\* line 68: the loop is over, return results
ParseReturn(c) ==
    /\ pc[c] = "loop"
    /\ TopFrame(c).i > Len(TopFrame(c).lines)
    /\ ReturnValue(c, SubSeq(stack[c], 1, Len(stack[c]) - 1), TopFrame(c).results)
    /\ UNCHANGED <<fs, top, arg>>
    /\ UNCHANGED crashVars

Next ==
    \/ \E c \in Callers : ParseMissing(c)
    \/ \E c \in Callers : ParseOpen(c)
    \/ \E c \in Callers : RecursionLimit(c)
    \/ \E c \in Callers : SkipLine(c)
    \/ \E c \in Callers : IncludeLine(c)
    \/ \E c \in Callers : AddLine(c)
    \/ \E c \in Callers : ParseReturn(c)

(***************************************************************************)
(* File systems and initial states                                         *)
(***************************************************************************)
File(lines) == [exists |-> TRUE, lines |-> lines]
NoFile == [exists |-> FALSE, lines |-> <<>>]

PathA == <<"/", "A">>
PathC == <<"/", "C">>
PathDB == <<"/", "d", "/", "B">>
PathDC == <<"/", "d", "/", "C">>
PathR == <<"/", "r">>
PathX == <<"/", "x">>

LIncDB == <<"-", "r", " ", "d", "/", "B">>          \* -r d/B
LIncC == <<"-", "r", " ", "C">>                      \* -r C
LIncAbsDC == <<"-", "r", " ", "/", "d", "/", "C">>   \* -r /d/C
LIncA == <<"-", "r", " ", "A">>                      \* -r A
LIncAbsA == <<"-", "r", " ", "/", "A">>              \* -r /A
LIncX == <<"-", "r", " ", "x">>                      \* -r x
LSpecA == <<"a", "=", "=", "1">>                     \* a==1
LSpecB == <<"b", ">", "2">>                          \* b>2
LSpecC == <<"c">>                                    \* c
LSpecY == <<"y">>                                    \* y
LSpecD == <<"d">>                                    \* d
LComment == <<"#", " ", "-", "r", " ", "C">>         \* # -r C

PoolA == {LIncDB, LIncC, LIncAbsDC, LIncA, LIncX, LSpecA, LComment}
OptsB == {NoFile, File(<<LIncC, LSpecB>>), File(<<LIncX, LSpecB>>), File(<<LIncAbsA>>)}
OptsDC == {NoFile, File(<<LSpecC>>)}
OptsC == {NoFile, File(<<LSpecY>>)}
Tops == {PathA, PathX}

crashIdle ==
    /\ cpc = "unused"
    /\ err = [user |-> FALSE, cause |-> FALSE]
    /\ probe = [gcloud |-> "absent", docker |-> "absent", cloud_sql_proxy |-> "absent"]
    /\ version = [gcloud |-> "unset", docker |-> "unset", cloud_sql_proxy |-> "unset"]
    /\ logfile = "none"
    /\ told = 0
    /\ asked = 0
    /\ ans = <<>>
    /\ reply = <<>>
    /\ browser = 0
    /\ raised = "none"

\* One caller, parse(top), on a generated top-level file with nested includes.
Init ==
    /\ \E a \in SeqsUpTo(PoolA, MaxLines), b \in OptsB, dc \in OptsDC, cc \in OptsC :
          fs = (PathA :> File(a)) @@ (PathDB :> b) @@ (PathDC :> dc) @@ (PathC :> cc)
    /\ \E t \in Tops : top = [c \in Callers |-> IF c = 1 THEN t ELSE <<>>]
    /\ arg = top
    /\ pc = [c \in Callers |-> IF c = 1 THEN "call" ELSE "unused"]
    /\ stack = [c \in Callers |-> <<>>]
    /\ result = [c \in Callers |-> {}]
    /\ crashIdle

Spec == Init /\ [][Next]_vars

FairSpec == Init /\ [][Next]_vars /\ WF_vars(Next)

\* One caller, parse("/A"), where /A holds one line of arbitrary characters.
Alphabet == {"-", "r", " ", "\t", "#", "\"", "=", "A"}

ExtraLines == {
    <<"A", ";", "r">>, <<"A", "[", "r", "]">>, <<"A", "~", "=", "r">>,
    <<"A", ">", "r">>, <<"A", "<", "r">>,
    <<"r", " ", "[", "A", "]", ">", "=", "2", ";", " ", "r", ">", "A">>,
    <<" ", "\t", "#", "-", "r", " ", "r">>,
    <<"\t", "\"", "\"", "\"", "-", "r", " ", "r">>,
    <<"-", "r", " ", " ", "r">>, <<"-", "r", " ", "\t", "r">>,
    <<"-", "r", "\t", " ", "r", " ">> }

InitLine ==
    /\ \E l \in SeqsUpTo(Alphabet, MaxLen) \cup ExtraLines :
          fs = (PathA :> File(<<l>>)) @@ (PathR :> File(<<LSpecD>>))
    /\ top = [c \in Callers |-> IF c = 1 THEN PathA ELSE <<>>]
    /\ arg = top
    /\ pc = [c \in Callers |-> IF c = 1 THEN "call" ELSE "unused"]
    /\ stack = [c \in Callers |-> <<>>]
    /\ result = [c \in Callers |-> {}]
    /\ crashIdle

SpecLine == InitLine /\ [][Next]_vars

\* Several callers at once, each on a path of its own choice.
ConcFS == {
    (PathA :> File(<<LIncDB, LSpecA>>)) @@ (PathDB :> File(<<LSpecB, LIncC>>))
        @@ (PathDC :> File(<<LSpecC>>)) @@ (PathC :> File(<<LSpecY>>)),
    (PathA :> File(<<LSpecA, LComment, LIncX>>)) @@ (PathDB :> File(<<LIncAbsA, LSpecB>>))
        @@ (PathDC :> NoFile) @@ (PathC :> File(<<LSpecY, LIncC>>)) }

InitConc ==
    /\ fs \in ConcFS
    /\ top \in [Callers -> {PathA, PathDB, PathC}]
    /\ arg = top
    /\ pc = [c \in Callers |-> "call"]
    /\ stack = [c \in Callers |-> <<>>]
    /\ result = [c \in Callers |-> {}]
    /\ crashIdle

SpecConc == InitConc /\ [][Next]_vars

(***************************************************************************)
(* crash_handling: handle_crash and _create_issue_body                     *)
(***************************************************************************)
Binaries == {"gcloud", "docker", "cloud_sql_proxy"}

\* shutil.which finds nothing / check_output returns / CalledProcessError
Outcomes == {"absent", "ok", "fail"}

AnsAlphabet == {"y", "Y", "n", "N", " ", "x"}

str_lower(s) ==
    [k \in 1..Len(s) |-> IF s[k] = "Y" THEN "y" ELSE IF s[k] = "N" THEN "n" ELSE s[k]]

parseIdle ==
    /\ fs = <<>>
    /\ top = [c \in Callers |-> <<>>]
    /\ arg = [c \in Callers |-> <<>>]
    /\ pc = [c \in Callers |-> "unused"]
    /\ stack = [c \in Callers |-> <<>>]
    /\ result = [c \in Callers |-> {}]

InitCrash ==
    /\ cpc = "start"
    /\ err \in [user : BOOLEAN, cause : BOOLEAN]
    /\ probe \in [Binaries -> Outcomes]
    /\ version = [b \in Binaries |-> "unset"]
    /\ logfile = "none"
    /\ told = 0
    /\ asked = 0
    /\ ans = <<>>
    /\ reply = <<>>
    /\ browser = 0
    /\ raised = "none"
    /\ parseIdle

\* lines 64-68: err is a UserError; raise err.__cause__ (raise None is a
\* TypeError: exceptions must derive from BaseException)
RaiseCause ==
    /\ cpc = "start"
    /\ err.user
    /\ raised' = IF err.cause THEN "cause" ELSE "TypeError"
    /\ cpc' = "raised"
    /\ UNCHANGED <<err, probe, version, logfile, told, asked, ans, reply, browser>>
    /\ UNCHANGED parseVars

\* lines 70-71: tempfile.mkstemp creates the report file
Mkstemp ==
    /\ cpc = "start"
    /\ ~err.user
    /\ logfile' = "created"
    /\ cpc' = "gcloud"
    /\ UNCHANGED <<err, probe, version, told, asked, ans, reply, browser, raised>>
    /\ UNCHANGED parseVars

\* lines 133-144: the handler binds the exception, `as e`
ProbeGcloud ==
    /\ cpc = "gcloud"
    /\ version' = [version EXCEPT !["gcloud"] =
            CASE probe["gcloud"] = "absent" -> "Not installed or not on PATH"
              [] probe["gcloud"] = "ok" -> "output"
              [] probe["gcloud"] = "fail" -> "Error: stderr"]
    /\ cpc' = "docker"
    /\ UNCHANGED <<err, probe, logfile, told, asked, ans, reply, browser, raised>>
    /\ UNCHANGED parseVars

\* The handlers of lines 154 and 167 do not bind the exception; the name e
\* they read is the local of line 141, never bound if that handler did not
\* run and deleted at its end if it did: reading it is an UnboundLocalError.
ProbeUnbound(b, next) ==
    /\ cpc = b
    /\ CASE probe[b] = "absent" ->
              /\ version' = [version EXCEPT ![b] = "Not installed or not on PATH"]
              /\ cpc' = next
              /\ UNCHANGED raised
         [] probe[b] = "ok" ->
              /\ version' = [version EXCEPT ![b] = "output"]
              /\ cpc' = next
              /\ UNCHANGED raised
         [] probe[b] = "fail" ->
              /\ raised' = "UnboundLocalError"
              /\ cpc' = "raised"
              /\ UNCHANGED version
    /\ UNCHANGED <<err, probe, logfile, told, asked, ans, reply, browser>>
    /\ UNCHANGED parseVars

\* lines 146-157
ProbeDocker == ProbeUnbound("docker", "cloud_sql_proxy")

\* lines 159-170
ProbeCloudSqlProxy == ProbeUnbound("cloud_sql_proxy", "write")

\* lines 172-184 and 72-75: the body is rendered and written to the file
WriteReport ==
    /\ cpc = "write"
    /\ logfile' = "written"
    /\ cpc' = "close"
    /\ UNCHANGED <<err, probe, version, told, asked, ans, reply, browser, raised>>
    /\ UNCHANGED parseVars

\* line 76
CloseReport ==
    /\ cpc = "close"
    /\ logfile' = "closed"
    /\ cpc' = "tell"
    /\ UNCHANGED <<err, probe, version, told, asked, ans, reply, browser, raised>>
    /\ UNCHANGED parseVars

\* lines 78-84
Tell ==
    /\ cpc = "tell"
    /\ told' = told + 1
    /\ cpc' = "ask"
    /\ UNCHANGED <<err, probe, version, logfile, asked, ans, reply, browser, raised>>
    /\ UNCHANGED parseVars

\* line 92: ans in ['y', 'n']
is_answer(a) == a \in {<<"y">>, <<"n">>}

\* lines 86-93: one round of the loop
Ask ==
    /\ cpc = "ask"
    /\ asked < MaxAsks
    /\ \E r \in SeqsUpTo(AnsAlphabet, MaxAnsLen) :
          LET a == str_lower(strip(r)) IN
          /\ reply' = r
          /\ ans' = a
          /\ cpc' = IF a = <<>> \/ is_answer(a) THEN "decide" ELSE "ask"
    /\ asked' = asked + 1
    /\ UNCHANGED <<err, probe, version, logfile, told, browser, raised>>
    /\ UNCHANGED parseVars

\* line 95 with the default taken as yes
wants_issue_default_yes(a) == str_lower(a) # <<"n">>

\* line 95: ans.lower() == 'y'
wants_issue(a) == str_lower(a) = <<"y">>

\* lines 95-96 and 99-113: _create_issue opens the browser
CreateIssue ==
    /\ cpc = "decide"
    /\ wants_issue(ans)
    /\ browser' = browser + 1
    /\ cpc' = "done"
    /\ UNCHANGED <<err, probe, version, logfile, told, asked, ans, reply, raised>>
    /\ UNCHANGED parseVars

\* line 95: the answer is not 'y', handle_crash returns
NoIssue ==
    /\ cpc = "decide"
    /\ ~wants_issue(ans)
    /\ cpc' = "done"
    /\ UNCHANGED <<err, probe, version, logfile, told, asked, ans, reply, browser, raised>>
    /\ UNCHANGED parseVars

NextCrash ==
    \/ RaiseCause
    \/ Mkstemp
    \/ ProbeGcloud
    \/ ProbeDocker
    \/ ProbeCloudSqlProxy
    \/ WriteReport
    \/ CloseReport
    \/ Tell
    \/ Ask
    \/ CreateIssue
    \/ NoIssue

SpecCrash == InitCrash /\ [][NextCrash]_vars

(***************************************************************************)
(* What the claims speak of                                                *)
(***************************************************************************)
\* The stripped lines of file p that are neither skipped nor includes.
SpecifierLines(p) ==
    {strip(fs[p].lines[k]) : k \in {j \in 1..Len(fs[p].lines) :
        ~is_skipped(strip(fs[p].lines[j])) /\ ~is_include(strip(fs[p].lines[j]))}}

IncludeLines(p) ==
    {strip(fs[p].lines[k]) : k \in {j \in 1..Len(fs[p].lines) :
        ~is_skipped(strip(fs[p].lines[j])) /\ is_include(strip(fs[p].lines[j]))}}

\* The files named by the include lines of p, each resolved against the
\* directory of p itself.
IncludeTargets(p) ==
    IF os_path_exists(p)
    THEN {os_path_join(os_path_dirname(p), sub_requirements_path(l)) : l \in IncludeLines(p)}
    ELSE {}

\* The set the claim gives for parse(p): empty for a missing file, else the
\* identifiers of p's specifier lines united with the sets of its includes.
RECURSIVE UnionOfIncludes(_, _)
UnionOfIncludes(p, fuel) ==
    IF fuel = 0 \/ ~os_path_exists(p) THEN {}
    ELSE {parse_line(l) : l \in SpecifierLines(p)}
         \cup UNION {UnionOfIncludes(f, fuel - 1) : f \in IncludeTargets(p)}

RECURSIVE Closure(_)
Closure(S) ==
    LET T == S \cup UNION {IncludeTargets(p) : p \in S}
    IN  IF T = S THEN S ELSE Closure(T)

ReachFrom(p) == Closure({p})

\* Some existing file reachable from p includes itself, directly or not.
Cyclic(p) ==
    \E q \in ReachFrom(p) : os_path_exists(q) /\ q \in Closure(IncludeTargets(q))

\* The claims' own reading of a line, written without the parser's helpers.
ClaimDelimiters == {";", "[", "~", ">", "=", "<"}

FirstDelimiter(line) ==
    IF \E k \in 1..Len(line) : line[k] \in ClaimDelimiters
    THEN CHOOSE k \in 1..Len(line) :
            /\ line[k] \in ClaimDelimiters
            /\ \A j \in 1..(k - 1) : line[j] \notin ClaimDelimiters
    ELSE Len(line) + 1

BeforeFirstDelimiter(line) == SubSeq(line, 1, FirstDelimiter(line) - 1)

IsBlank(s) == \A k \in 1..Len(s) : s[k] \in {" ", "\t"}

\* s without its leading and trailing blanks
Trimmed(s) ==
    IF IsBlank(s) THEN <<>>
    ELSE LET a == CHOOSE k \in 1..Len(s) :
                    s[k] \notin {" ", "\t"} /\ IsBlank(SubSeq(s, 1, k - 1))
             b == CHOOSE k \in 1..Len(s) :
                    s[k] \notin {" ", "\t"} /\ IsBlank(SubSeq(s, k + 1, Len(s)))
         IN  SubSeq(s, a, b)

\* The final whitespace-separated token of a trimmed line.
LastToken(line) ==
    IF \E k \in 1..Len(line) : line[k] \in {" ", "\t"}
    THEN LET k == CHOOSE j \in 1..Len(line) :
                    /\ line[j] \in {" ", "\t"}
                    /\ \A m \in (j + 1)..Len(line) : line[m] \notin {" ", "\t"}
         IN  SubSeq(line, k + 1, Len(line))
    ELSE line

SkipClass(raw) ==
    LET t == Trimmed(raw) IN
    \/ t = <<>>
    \/ t[1] = "#"
    \/ Len(t) >= 3 /\ t[1] = "\"" /\ t[2] = "\"" /\ t[3] = "\""

RawLine(c) == TopFrame(c).lines[TopFrame(c).i]

Moved(c) == <<pc[c], arg[c], stack[c], result[c]>>' # <<pc[c], arg[c], stack[c], result[c]>>

\* C1: when parse(A) returns for an existing file A, the returned set is
\* exactly the identifiers of A's specifier lines united with parse(F) for
\* every file F an include line of A names, F resolved against the directory
\* of the file that holds the include line.
C1_ParseIsUnionOfIncludes ==
    \A c \in Callers :
        (pc[c] = "done" /\ os_path_exists(top[c]))
            => result[c] = UnionOfIncludes(top[c], MaxDepth)

\* parse("/A") returned: /A includes d/B, /d/B includes C, and the C taken is
\* /d/C (next to /d/B), not /C (next to /A).
C1_Witness ==
    /\ pc[1] = "done"
    /\ top[1] = PathA
    /\ fs[PathA].lines = <<LIncDB, LSpecA>>
    /\ fs[PathDB] = File(<<LIncC, LSpecB>>)
    /\ fs[PathDC] = File(<<LSpecC>>)
    /\ fs[PathC] = File(<<LSpecY>>)
    /\ result[1] = {<<"a">>, <<"b">>, <<"c">>}

\* C2: a call of parse on a path that does not exist returns the empty set
\* without an error: the outermost call ends with the empty set, and a nested
\* one leaves the including frame's results as they were and moves it on to
\* its next line.
C2_MissingFileIsEmpty ==
    [][\A c \in Callers :
        (pc[c] = "call" /\ ~os_path_exists(arg[c]) /\ Len(stack[c]) < MaxDepth /\ Moved(c))
            => IF stack[c] = <<>>
               THEN pc'[c] = "done" /\ result'[c] = {}
               ELSE /\ pc'[c] = "loop"
                    /\ Len(stack'[c]) = Len(stack[c])
                    /\ stack'[c] = [stack[c] EXCEPT ![Len(stack[c])] =
                            [TopFrame(c) EXCEPT !.i = TopFrame(c).i + 1]]]_vars

\* parse("/A") returned {"a"}: the include of the missing /x gave nothing and
\* the specifier line after it was still processed.
C2_Witness ==
    /\ pc[1] = "done"
    /\ top[1] = PathA
    /\ fs[PathA].lines = <<LIncX, LSpecA>>
    /\ ~os_path_exists(PathX)
    /\ result[1] = {<<"a">>}

\* C3: for a line that is neither skipped nor an include, the identifier
\* added to the results is the part of the line before the first of the
\* delimiters ; [ ~ > = <, trimmed; it holds no delimiter, and it is the
\* empty string when the line begins with a delimiter.
C3_IdentifierIsPrefixBeforeDelimiter ==
    [][\A c \in Callers :
        (/\ pc[c] = "loop"
         /\ TopFrame(c).i <= Len(TopFrame(c).lines)
         /\ ~SkipClass(RawLine(c))
         /\ ~(Len(Trimmed(RawLine(c))) >= 2
              /\ SubSeq(Trimmed(RawLine(c)), 1, 2) = <<"-", "r">>)
         /\ Moved(c))
            => LET line == Trimmed(RawLine(c))
                   id == Trimmed(BeforeFirstDelimiter(line))
               IN  /\ pc'[c] = "loop"
                   /\ Len(stack'[c]) = Len(stack[c])
                   /\ stack'[c][Len(stack[c])].results = TopFrame(c).results \cup {id}
                   /\ \A k \in 1..Len(id) : id[k] \notin ClaimDelimiters
                   /\ (line[1] \in ClaimDelimiters => id = <<>>)]_vars

\* parse("/A") returned {""}: the only line of /A begins with a delimiter.
C3_Witness ==
    /\ pc[1] = "done"
    /\ fs[PathA].lines # <<>>
    /\ fs[PathA].lines[1] = <<"=", "A", " ", "r">>
    /\ result[1] = {<<>>}

\* C4: the path given to the recursive call of an include line is the final
\* whitespace-separated token of the line, resolved against the directory of
\* the including file.
C4_IncludePathIsLastWhitespaceToken ==
    \A c \in Callers :
        (pc[c] = "call" /\ stack[c] # <<>>)
            => arg[c] = os_path_join(os_path_dirname(TopFrame(c).path),
                                     LastToken(Trimmed(RawLine(c))))

\* C5: a line that, trimmed, is empty or begins with # or """ adds no
\* identifier and starts no recursive call: the loop moves to the next line
\* with the results as they were.
C5_SkippedLinesContributeNothing ==
    [][\A c \in Callers :
        (/\ pc[c] = "loop"
         /\ TopFrame(c).i <= Len(TopFrame(c).lines)
         /\ SkipClass(RawLine(c))
         /\ Moved(c))
            => /\ pc'[c] = "loop"
               /\ arg'[c] = arg[c]
               /\ stack'[c] = [stack[c] EXCEPT ![Len(stack[c])] =
                        [TopFrame(c) EXCEPT !.i = TopFrame(c).i + 1]]]_vars

\* parse("/A") returned the empty set: the only line of /A is a tab, """ and
\* then what would be an include of the existing /r.
C5_Witness ==
    /\ pc[1] = "done"
    /\ fs[PathA].lines = << <<"\t", "\"", "\"", "\"", "-", "r", " ", "r">> >>
    /\ os_path_exists(PathR)
    /\ result[1] = {}

\* C8: with several calls of parse interleaved, each call returns the set it
\* returns alone, and at no time do the results of a call in progress hold an
\* identifier that its own file and includes do not give.
C8_ConcurrentCallsAreIndependent ==
    \A c \in Callers :
        /\ pc[c] = "done" => result[c] = UnionOfIncludes(top[c], MaxDepth)
        /\ \A k \in 1..Len(stack[c]) :
              stack[c][k].results \subseteq UnionOfIncludes(stack[c][k].path, MaxDepth)

\* Two calls on different files are both in the middle of their loops, each
\* holding identifiers the other's file does not give.
C8_Witness ==
    /\ pc[1] = "loop" /\ pc[2] = "loop"
    /\ top[1] = PathA /\ top[2] = PathC
    /\ TopFrame(1).results # {} /\ TopFrame(2).results # {}
    /\ TopFrame(1).results \cap UnionOfIncludes(PathC, MaxDepth) = {}
    /\ TopFrame(2).results \cap UnionOfIncludes(PathA, MaxDepth) = {}

\* C9: parse(path) returns when no file reachable from path through include
\* lines includes itself; when one does, the call never returns and the
\* nesting grows until the recursion limit.  The call always ends, returned
\* or at the limit; it has returned only where no reachable file includes
\* itself, and it is at the limit only where one does.
C9_TerminatesIffAcyclic ==
    /\ <>(pc[1] \in {"done", "RecursionError"})
    /\ [](pc[1] = "done" => ~Cyclic(top[1]))
    /\ [](pc[1] = "RecursionError" => Cyclic(top[1]))

\* /A includes d/B and /d/B includes /A: the call ended at the recursion limit.
C9_Witness ==
    /\ pc[1] = "RecursionError"
    /\ top[1] = PathA
    /\ LIncDB \in {fs[PathA].lines[k] : k \in 1..Len(fs[PathA].lines)}
    /\ LIncA \notin {fs[PathA].lines[k] : k \in 1..Len(fs[PathA].lines)}
    /\ fs[PathDB] = File(<<LIncAbsA>>)

\* C6: a failing gcloud, docker or cloud_sql_proxy invocation becomes a
\* placeholder version string and no exception leaves handle_crash.
C6_ProbeFailureBecomesPlaceholder ==
    \A b \in Binaries :
        (~err.user /\ probe[b] = "fail")
            => /\ raised = "none"
               /\ cpc \in {"write", "close", "tell", "ask", "decide", "done"}
                    => version[b] = "Error: stderr"

\* C7: for a UserError the original cause is what leaves handle_crash, and
\* no report file, console message, question or browser window is made.
C7_UserErrorRethrowsCause ==
    (err.user /\ cpc # "start")
        => /\ raised = "cause"
           /\ logfile = "none" /\ told = 0 /\ asked = 0 /\ browser = 0

AcceptedReply(r) == Trimmed(r) \in {<<>>, <<"y">>, <<"Y">>, <<"n">>, <<"N">>}

YesReply(r) == Trimmed(r) \in {<<"y">>, <<"Y">>}

\* C10: for an error that is not a UserError, a question is asked only after
\* the report file is written and closed and the message shown; the question
\* is repeated exactly while the answer, trimmed and lower-cased, is not
\* empty, 'y' or 'n'; the browser is opened at most once, only after the loop,
\* and exactly when the last answer is 'y'.
C10_ReportThenAskThenMaybeBrowser ==
    ~err.user =>
        /\ asked > 0 => (logfile = "closed" /\ told = 1)
        /\ (cpc = "ask" /\ asked > 0) => ~AcceptedReply(reply)
        /\ cpc \in {"decide", "done"} => (asked > 0 /\ AcceptedReply(reply))
        /\ browser <= 1
        /\ browser = 1 => (cpc = "done" /\ YesReply(reply))
        /\ cpc = "done" => (browser = 1 <=> YesReply(reply))

\* The question was asked more than once and the last answer, "Y ", opened
\* the browser.
C10_Witness ==
    /\ ~err.user
    /\ cpc = "done"
    /\ asked >= 2
    /\ reply = <<"Y", " ">>
    /\ browser = 1
    /\ logfile = "closed"

====
